---- MODULE Spec2Model ----
(***************************************************************************)
(* Model of the Factorio production calculator (src/wiki/README.md, the    *)
(* calculator API server) and of the knowledge-graph server                *)
(* (src/calculator/factorio-knowledge-graph.js).                           *)
(*                                                                         *)
(* factorioData is the recipe dataset loaded at start-up and never written *)
(* afterwards.  Every HTTP handler is one action: it reads the request,    *)
(* runs the builders to completion and leaves the response in res.         *)
(*                                                                         *)
(* Numbers.  JavaScript numbers are modelled as exact non-negative         *)
(* rationals <<n, d>> in lowest terms (d > 0); Math.round and Math.ceil    *)
(* are computed on the exact value.  Binary floating-point error is not    *)
(* modelled.                                                               *)
(*                                                                         *)
(* Strings.  A template string such as `recipe:${key}` is modelled as the  *)
(* tuple of its parts, <<"recipe:", key>>.                                 *)
(***************************************************************************)
EXTENDS Integers, Sequences, FiniteSets, TLC

VARIABLES factorioData, req, res, ghost

vars == <<factorioData, req, res, ghost>>

----------------------------------------------------------------------------
(* Bounds of the model *)

\* largest number of recipes in a dataset
MaxRecipes == 3

\* largest ?depth= / body.depth value sent to the knowledge-graph server
MaxDepth == 2

\* largest number of seeds in a /multi-item-graph request
MaxSeeds == 2

\* number of nested activations at which a recursive walk is reported as
\* not terminating (ghost.overrun).  Every activation runs finite loops, so
\* a walk runs forever only if its recursion gets arbitrarily deep.
StackBudget == 8
MaxFlowRecipes == 4

----------------------------------------------------------------------------
(* Exact rational arithmetic *)

RECURSIVE GCD(_, _)
GCD(a, b) == IF b = 0 THEN a ELSE GCD(b, a % b)

Rat(n, d) == LET g == GCD(n, d) IN <<n \div g, d \div g>>

Zero == <<0, 1>>

RInt(k) == <<k, 1>>

RAdd(p, q) ==
  LET g == GCD(p[2], q[2])
  IN Rat(p[1] * (q[2] \div g) + q[1] * (p[2] \div g), p[2] * (q[2] \div g))

RMul(p, q) == Rat(p[1] * q[1], p[2] * q[2])

\* p / q, q > 0
RDiv(p, q) == Rat(p[1] * q[2], p[2] * q[1])

RLess(p, q) == p[1] * q[2] < q[1] * p[2]

RMaxOf(p, q) == IF RLess(p, q) THEN q ELSE p

\* Math.round(x * 100) / 100   (x >= 0: round half up)
Round2(x) == Rat((200 * x[1] + x[2]) \div (2 * x[2]), 100)

\* Math.ceil(x * 100) / 100
Ceil2(x) == Rat((100 * x[1] + x[2] - 1) \div x[2], 100)

----------------------------------------------------------------------------
(* The dataset *)

Ing(n, a) == [name |-> n, amount |-> a]

\* energy_required = 0 and amount = 0 stand for an absent field
RecipePool ==
  { [key |-> "x", energy_required |-> 1,
     ingredients |-> <<Ing("y", 1), Ing("z", 2)>>,
     results |-> <<Ing("x", 1)>>],
    [key |-> "y", energy_required |-> 0,
     ingredients |-> <<Ing("x", 1)>>,
     results |-> <<Ing("y", 2)>>],
    [key |-> "z", energy_required |-> 2,
     ingredients |-> <<Ing("ore", 3), Ing("ore", 1)>>,
     results |-> <<Ing("z", 0), Ing("w", 1)>>],
    [key |-> "y-alt", energy_required |-> 0,
     ingredients |-> <<Ing("z", 1), Ing("ore", 1)>>,
     results |-> <<Ing("y", 1)>>],
    [key |-> "loop", energy_required |-> 1,
     ingredients |-> <<Ing("w", 2), Ing("ore", 1)>>,
     results |-> <<Ing("w", 3)>>] }

Items == {"x", "y", "z", "w", "ore"}

\* factorioData.recipes: an object, iterated in insertion order; keys unique
Datasets ==
  { d \in UNION { [1..n -> RecipePool] : n \in 1..MaxRecipes } :
      \A i, j \in DOMAIN d : i # j => d[i].key # d[j].key }

Rates == { <<0, 1>>, <<1, 200>>, <<10, 1>> }

\* recipes forming a chain x <- y <- z <- w <- ore that is as long as the
\* flow view's depth limit, with three alternative heads
FlowPool ==
  { [key |-> "a", energy_required |-> 1,
     ingredients |-> <<Ing("y", 1), Ing("ore", 1)>>,
     results |-> <<Ing("x", 1)>>],
    [key |-> "a-rev", energy_required |-> 1,
     ingredients |-> <<Ing("ore", 1), Ing("y", 1)>>,
     results |-> <<Ing("x", 1)>>],
    [key |-> "a-only", energy_required |-> 1,
     ingredients |-> <<Ing("y", 1)>>,
     results |-> <<Ing("x", 1)>>],
    [key |-> "b", energy_required |-> 1,
     ingredients |-> <<Ing("z", 1)>>,
     results |-> <<Ing("y", 1)>>],
    [key |-> "c", energy_required |-> 1,
     ingredients |-> <<Ing("w", 1)>>,
     results |-> <<Ing("z", 1)>>],
    [key |-> "d", energy_required |-> 1,
     ingredients |-> <<Ing("ore", 2)>>,
     results |-> <<Ing("w", 1)>>] }

FlowDatasets ==
  { d \in UNION { [1..n -> FlowPool] : n \in 1..MaxFlowRecipes } :
      \A i, j \in DOMAIN d : i # j => d[i].key # d[j].key }

Null == [null |-> TRUE]

Range(s) == { s[i] : i \in DOMAIN s }

----------------------------------------------------------------------------
(* Calculator API server *)

RECURSIVE FirstProducer(_, _)
\* variant: only the primary output of a recipe is matched
FirstProducer_PrimaryOnly(itemName, i) ==
  IF i > Len(factorioData) THEN Null
  ELSE IF factorioData[i].results[1].name = itemName
       THEN factorioData[i]
       ELSE FirstProducer(itemName, i + 1)

FirstProducer(itemName, i) ==
  IF i > Len(factorioData) THEN Null
  ELSE IF \E k \in DOMAIN factorioData[i].results :
            factorioData[i].results[k].name = itemName
       THEN factorioData[i]
       ELSE FirstProducer(itemName, i + 1)

FindRecipeForItem(itemName) == FirstProducer(itemName, 1)

\* recipe.energy_required || 0.5
CraftingTime(recipe) ==
  IF recipe.energy_required = 0 THEN <<1, 2>> ELSE RInt(recipe.energy_required)

\* recipe.results[0].amount || 1
OutputAmount(recipe) ==
  IF recipe.results[1].amount = 0 THEN 1 ELSE recipe.results[1].amount

\* variant: speed of assembling-machine-2
CraftingSpeed_AM2 == <<3, 4>>

\* speed of assembling-machine-3
CraftingSpeed == <<5, 4>>

\* (rate * craftingTime) / (outputAmount * craftingSpeed)
MachinesNeeded(recipe, rate) ==
  RDiv(RMul(rate, CraftingTime(recipe)),
       RMul(RInt(OutputAmount(recipe)), CraftingSpeed))

\* (ingredient.amount * rate) / outputAmount
IngredientRate(recipe, ingredient, rate) ==
  RDiv(RMul(RInt(ingredient.amount), rate), RInt(OutputAmount(recipe)))

\* an object used as a map, as the insertion-ordered list of its entries
HasKey(obj, k) == \E i \in DOMAIN obj : obj[i].name = k

IndexOf(obj, k) == CHOOSE i \in DOMAIN obj : obj[i].name = k

\* variant: the amount is rounded to two decimals when it is added
AddRequirement_Rounded(requirements, name, amount) ==
  IF HasKey(requirements, name)
  THEN [requirements EXCEPT ![IndexOf(requirements, name)].rate = RAdd(@, Round2(amount))]
  ELSE Append(requirements, [name |-> name, rate |-> Round2(amount)])

\* requirements[name] = (requirements[name] || 0) + amount
AddRequirement(requirements, name, amount) ==
  IF HasKey(requirements, name)
  THEN [requirements EXCEPT ![IndexOf(requirements, name)].rate = RAdd(@, amount)]
  ELSE Append(requirements, [name |-> name, rate |-> amount])

\* a Set, as the list of its members in insertion order
SetHas(set, k) == \E i \in DOMAIN set : set[i] = k

\* variant: the key is never recorded
SetAdd_Forget(set, k) == set

SetAdd(set, k) == IF SetHas(set, k) THEN set ELSE Append(set, k)

\* instrumentation of the walks: activations so far, activations now on the
\* stack, budget overrun, additions logged by calculateFullRequirements,
\* visits logged by processRecipe, and the requirements object as
\* calculateFullRequirements leaves it (before it is rounded for display)
NoGhost == [calls |-> 0, depth |-> 0, overrun |-> FALSE, events |-> <<>>, occ |-> <<>>,
            requirements |-> <<>>, flow |-> <<>>]

\* the walk state on entering an activation
Enter(acc) == [acc EXCEPT !.g.calls = @ + 1, !.g.depth = @ + 1]

\* the walk state on leaving it
Leave(acc) == [acc EXCEPT !.g.depth = @ - 1]

Overrun(acc) == [acc EXCEPT !.g.overrun = TRUE]

RECURSIVE CalculateFullRequirements(_, _, _, _)
RECURSIVE FullIngredients(_, _, _, _, _)
\* acc.requirements is the requirements object the calls share; acc.g counts
\* the activations and logs every addition (recipe, ingredient index, item,
\* amount, recipes on the path so far)
\* variant: one visited set shared by all branches (a recipe expanded
\* anywhere before is never expanded again)
CalculateFullRequirements_SharedSeen(recipe, targetRate, acc, seen) ==
  IF acc.g.depth >= StackBudget THEN Overrun(acc)
  ELSE Leave(LET acc1 == Enter(acc) IN
       IF \/ SetHas(seen, recipe.key)
          \/ \E i \in DOMAIN acc.g.events : acc.g.events[i].recipe = recipe.key
       THEN acc1
       ELSE FullIngredients(recipe, targetRate, acc1, SetAdd(seen, recipe.key), 1))

CalculateFullRequirements(recipe, targetRate, acc, seen) ==
  IF acc.g.depth >= StackBudget THEN Overrun(acc)
  ELSE Leave(LET acc1 == Enter(acc) IN
       IF SetHas(seen, recipe.key) THEN acc1
       ELSE FullIngredients(recipe, targetRate, acc1, SetAdd(seen, recipe.key), 1))

\* variant: an ingredient whose recipe is already on the path adds no demand
FullIngredients_SkipCut(recipe, targetRate, acc, seen, i) ==
  IF i > Len(recipe.ingredients) THEN acc
  ELSE LET ingredient == recipe.ingredients[i]
           amountNeeded == IngredientRate(recipe, ingredient, targetRate)
           ingredientRecipe == FindRecipeForItem(ingredient.name)
           cut == ingredientRecipe # Null /\ SetHas(seen, ingredientRecipe.key)
           acc1 == IF cut THEN acc
                   ELSE [acc EXCEPT
                      !.requirements = AddRequirement(@, ingredient.name, amountNeeded),
                      !.g.events = Append(@, [recipe |-> recipe.key,
                                              idx |-> i,
                                              item |-> ingredient.name,
                                              amount |-> amountNeeded,
                                              seen |-> seen])]
           acc2 == IF ingredientRecipe # Null /\ ~cut
                   THEN CalculateFullRequirements(ingredientRecipe, amountNeeded, acc1, seen)
                   ELSE acc1
       IN FullIngredients(recipe, targetRate, acc2, seen, i + 1)

FullIngredients(recipe, targetRate, acc, seen, i) ==
  IF i > Len(recipe.ingredients) THEN acc
  ELSE LET ingredient == recipe.ingredients[i]
           amountNeeded == IngredientRate(recipe, ingredient, targetRate)
           acc1 == [acc EXCEPT
                      !.requirements = AddRequirement(@, ingredient.name, amountNeeded),
                      !.g.events = Append(@, [recipe |-> recipe.key,
                                              idx |-> i,
                                              item |-> ingredient.name,
                                              amount |-> amountNeeded,
                                              seen |-> seen])]
           ingredientRecipe == FindRecipeForItem(ingredient.name)
           acc2 == IF ingredientRecipe # Null
                   THEN CalculateFullRequirements(ingredientRecipe, amountNeeded, acc1, seen)
                   ELSE acc1
       IN FullIngredients(recipe, targetRate, acc2, seen, i + 1)

\* Array.prototype.sort((a, b) => b.rate - a.rate): stable, descending rate
RECURSIVE InsertByRate(_, _)
InsertByRate(sorted, e) ==
  IF sorted = <<>> THEN <<e>>
  ELSE IF RLess(sorted[Len(sorted)].rate, e.rate)
       THEN Append(InsertByRate(SubSeq(sorted, 1, Len(sorted) - 1), e), sorted[Len(sorted)])
       ELSE Append(sorted, e)

RECURSIVE SortByRateDesc(_)
SortByRateDesc(s) ==
  IF s = <<>> THEN <<>>
  ELSE InsertByRate(SortByRateDesc(SubSeq(s, 1, Len(s) - 1)), s[Len(s)])

\* returns [out |-> the result object, g |-> ghost]
CalculateRequirements(recipe, targetRate) ==
  LET full == CalculateFullRequirements(recipe, targetRate,
                 [requirements |-> <<>>, g |-> NoGhost], <<>>)
  IN [out |->
       [item |-> recipe.results[1].name,
        targetRate |-> targetRate,
        machinesNeeded |-> Ceil2(MachinesNeeded(recipe, targetRate)),
        ingredients |->
          [i \in DOMAIN recipe.ingredients |->
             LET ir == FindRecipeForItem(recipe.ingredients[i].name) IN
             [name |-> recipe.ingredients[i].name,
              amountPerSecond |-> IngredientRate(recipe, recipe.ingredients[i], targetRate),
              recipe |-> IF ir # Null THEN ir.key ELSE "null"]],
        craftingTime |-> CraftingTime(recipe),
        recipe |-> recipe.key,
        fullRequirements |->
          SortByRateDesc([i \in DOMAIN full.requirements |->
             [name |-> full.requirements[i].name,
              rate |-> Round2(full.requirements[i].rate)]])],
      g |-> [full.g EXCEPT !.requirements = full.requirements]]

----------------------------------------------------------------------------
(* generateSankeyData *)

\* default of the depth parameter of generateSankeyData
SankeyDepth == 3

RecipeNodeName(key) == <<"Recipe: ", key>>

ItemNodeName(itemName) == <<itemName>>

\* nodeMap.get(name): the id (0-based index) of the node called name
SankeyNodeId(nodes, name) == (CHOOSE i \in DOMAIN nodes : nodes[i].name = name) - 1

\* addNode(name, type): the node list after the call
SankeyAddNode(nodes, name, type) ==
  IF \E i \in DOMAIN nodes : nodes[i].name = name
  THEN nodes
  ELSE Append(nodes, [name |-> name, id |-> Len(nodes), type |-> type])

\* variant: the visibility floor is 1 instead of 0.01
SankeyAddLink_Floor1(links, source, target, value) ==
  Append(links, [source |-> source, target |-> target,
                 value |-> RMaxOf(<<1, 1>>, value)])

\* addLink(source, target, value)
SankeyAddLink(links, source, target, value) ==
  Append(links, [source |-> source, target |-> target,
                 value |-> RMaxOf(<<1, 100>>, value)])

\* acc.g.flow logs every discovery of an item: as a recipe's output or as
\* an ingredient, at which depth, and the type its node has after the step
FlowLog(acc, itemName, role, currentDepth) ==
  [acc EXCEPT !.g.flow =
     Append(@, [item |-> itemName, role |-> role, depth |-> currentDepth,
                type |-> acc.nodes[SankeyNodeId(acc.nodes, ItemNodeName(itemName)) + 1].type])]

RECURSIVE BuildSankeyData(_, _, _, _, _, _)
RECURSIVE SankeyIngredients(_, _, _, _, _, _, _)
\* acc = [nodes, links, g]
BuildSankeyData(recipe, rate, currentDepth, visited, depth, acc) ==
  IF acc.g.depth >= StackBudget THEN Overrun(acc)
  ELSE Leave(LET acc0 == Enter(acc) IN
       IF currentDepth > depth THEN acc0
       ELSE IF SetHas(visited, recipe.key) THEN acc0
       ELSE LET recipeName == RecipeNodeName(recipe.key)
                outputItem == ItemNodeName(recipe.results[1].name)
                nodes1 == SankeyAddNode(acc0.nodes, recipeName, "recipe")
                nodes2 == SankeyAddNode(nodes1, outputItem, "item")
                acc1 == [acc0 EXCEPT
                           !.nodes = nodes2,
                           !.links = SankeyAddLink(@, SankeyNodeId(nodes2, recipeName),
                                                   SankeyNodeId(nodes2, outputItem), rate)]
            IN SankeyIngredients(recipe, rate, currentDepth,
                                 SetAdd(visited, recipe.key), depth,
                                 FlowLog(acc1, recipe.results[1].name, "output", currentDepth),
                                 1))

\* variant: a producer-less ingredient is marked raw at the depth limit too
SankeyIngredients_RawAtLimit(recipe, rate, currentDepth, visited, depth, acc, i) ==
  IF i > Len(recipe.ingredients) THEN acc
  ELSE LET ingredient == recipe.ingredients[i]
           ingredientRate == IngredientRate(recipe, ingredient, rate)
           nodes1 == SankeyAddNode(acc.nodes, ItemNodeName(ingredient.name), "item")
           ingredientNodeId == SankeyNodeId(nodes1, ItemNodeName(ingredient.name))
           acc1 == [acc EXCEPT
                      !.nodes = nodes1,
                      !.links = SankeyAddLink(@, ingredientNodeId,
                                   SankeyNodeId(nodes1, RecipeNodeName(recipe.key)),
                                   ingredientRate)]
           ingredientRecipe == FindRecipeForItem(ingredient.name)
           acc2 == IF ingredientRecipe # Null
                   THEN IF currentDepth < depth
                        THEN BuildSankeyData(ingredientRecipe, ingredientRate,
                                             currentDepth + 1, visited, depth,
                                             FlowLog(acc1, ingredient.name, "ingredient",
                                                     currentDepth))
                        ELSE FlowLog(acc1, ingredient.name, "ingredient", currentDepth)
                   ELSE FlowLog([acc1 EXCEPT !.nodes[ingredientNodeId + 1].type = "raw"],
                                ingredient.name, "ingredient", currentDepth)
       IN SankeyIngredients(recipe, rate, currentDepth, visited, depth, acc2, i + 1)

SankeyIngredients(recipe, rate, currentDepth, visited, depth, acc, i) ==
  IF i > Len(recipe.ingredients) THEN acc
  ELSE LET ingredient == recipe.ingredients[i]
           ingredientRate == IngredientRate(recipe, ingredient, rate)
           nodes1 == SankeyAddNode(acc.nodes, ItemNodeName(ingredient.name), "item")
           ingredientNodeId == SankeyNodeId(nodes1, ItemNodeName(ingredient.name))
           acc1 == [acc EXCEPT
                      !.nodes = nodes1,
                      !.links = SankeyAddLink(@, ingredientNodeId,
                                   SankeyNodeId(nodes1, RecipeNodeName(recipe.key)),
                                   ingredientRate)]
           ingredientRecipe == FindRecipeForItem(ingredient.name)
           acc2 == IF currentDepth < depth
                   THEN IF ingredientRecipe # Null
                        THEN BuildSankeyData(ingredientRecipe, ingredientRate,
                                             currentDepth + 1, visited, depth,
                                             FlowLog(acc1, ingredient.name, "ingredient",
                                                     currentDepth))
                        ELSE FlowLog([acc1 EXCEPT !.nodes[ingredientNodeId + 1].type = "raw"],
                                     ingredient.name, "ingredient", currentDepth)
                   ELSE FlowLog(acc1, ingredient.name, "ingredient", currentDepth)
       IN SankeyIngredients(recipe, rate, currentDepth, visited, depth, acc2, i + 1)

\* returns [out |-> {nodes, links}, g |-> ghost]
GenerateSankeyData(recipe, targetRate, depth, g) ==
  LET acc == BuildSankeyData(recipe, targetRate, 0, <<>>, depth,
                             [nodes |-> <<>>, links |-> <<>>, g |-> g])
  IN [out |-> [nodes |-> acc.nodes, links |-> acc.links], g |-> acc.g]

----------------------------------------------------------------------------
(* generateRecipeTree *)

\* default of the depth parameter of generateRecipeTree
TreeDepth == 5

RECURSIVE GenerateRecipeTree(_, _, _)
GenerateRecipeTree(recipe, targetRate, depth) ==
  LET result == [item |-> recipe.results[1].name,
                 recipe |-> recipe.key,
                 rate |-> targetRate,
                 machines |-> Ceil2(MachinesNeeded(recipe, targetRate)),
                 time |-> CraftingTime(recipe),
                 children |-> <<>>]
  IN IF depth <= 0 THEN result
     ELSE [result EXCEPT !.children =
            [i \in DOMAIN recipe.ingredients |->
               LET ingredient == recipe.ingredients[i]
                   ingredientRate == IngredientRate(recipe, ingredient, targetRate)
                   ingredientRecipe == FindRecipeForItem(ingredient.name)
               IN IF ingredientRecipe # Null
                  THEN LET subTree == GenerateRecipeTree(ingredientRecipe, ingredientRate, depth - 1)
                       IN [item |-> ingredient.name,
                           rate |-> Round2(ingredientRate),
                           recipe |-> subTree.recipe,
                           machines |-> subTree.machines,
                           time |-> subTree.time,
                           children |-> subTree.children]
                  ELSE [item |-> ingredient.name,
                        rate |-> Round2(ingredientRate),
                        type |-> "raw"]]]

----------------------------------------------------------------------------
(* generateRecipeTable *)

\* table.recipes[recipeKey]: created on the first visit, accumulated afterwards
\* variant: a later occurrence replaces the entry's counts instead of adding
TableAddRecipe_Overwrite(recipes, recipe, rate) ==
  IF ~HasKey(recipes, recipe.key)
  THEN Append(recipes, [name |-> recipe.key,
                        time |-> CraftingTime(recipe),
                        machines |-> Ceil2(MachinesNeeded(recipe, rate)),
                        outputRate |-> rate,
                        produces |-> recipe.results[1].name,
                        ingredients |-> <<>>])
  ELSE [recipes EXCEPT ![IndexOf(recipes, recipe.key)] =
          [@ EXCEPT !.machines = Ceil2(MachinesNeeded(recipe, rate)),
                    !.outputRate = rate]]

TableAddRecipe(recipes, recipe, rate) ==
  IF ~HasKey(recipes, recipe.key)
  THEN Append(recipes, [name |-> recipe.key,
                        time |-> CraftingTime(recipe),
                        machines |-> Ceil2(MachinesNeeded(recipe, rate)),
                        outputRate |-> rate,
                        produces |-> recipe.results[1].name,
                        ingredients |-> <<>>])
  ELSE [recipes EXCEPT ![IndexOf(recipes, recipe.key)] =
          [@ EXCEPT !.machines = Ceil2(RAdd(@, MachinesNeeded(recipe, rate))),
                    !.outputRate = RAdd(@, rate)]]

\* table.items[outputItem], producer side
TableAddProduced(items, recipe, rate) ==
  LET outputItem == recipe.results[1].name IN
  IF ~HasKey(items, outputItem)
  THEN Append(items, [name |-> outputItem,
                      producedBy |-> recipe.key,
                      producedRate |-> rate,
                      consumedBy |-> <<>>,
                      consumedRate |-> Zero])
  ELSE [items EXCEPT ![IndexOf(items, outputItem)].producedRate = RAdd(@, rate)]

\* table.items[ingredientName], consumer side
TableAddConsumed(items, ingredientName, recipeKey, ingredientRate) ==
  IF ~HasKey(items, ingredientName)
  THEN Append(items, [name |-> ingredientName,
                      producedBy |-> "null",
                      producedRate |-> Zero,
                      consumedBy |-> <<[name |-> recipeKey, rate |-> Round2(ingredientRate)]>>,
                      consumedRate |-> ingredientRate])
  ELSE [items EXCEPT ![IndexOf(items, ingredientName)] =
          [@ EXCEPT !.consumedBy = AddRequirement(@, recipeKey, Round2(ingredientRate)),
                    !.consumedRate = RAdd(@, ingredientRate)]]

RECURSIVE ProcessRecipe(_, _, _, _)
RECURSIVE TableIngredients(_, _, _, _, _)
\* acc = [recipes, items, rawMaterials, g]; g.occ logs every visit that
\* passes the cycle check
ProcessRecipe(recipe, rate, seen, acc) ==
  IF acc.g.depth >= StackBudget THEN Overrun(acc)
  ELSE Leave(LET acc0 == Enter(acc) IN
       IF SetHas(seen, recipe.key) THEN acc0
       ELSE LET acc1 == [acc0 EXCEPT
                           !.recipes = TableAddRecipe(@, recipe, rate),
                           !.items = TableAddProduced(@, recipe, rate),
                           !.g.occ = Append(@, [name |-> recipe.key, rate |-> rate])]
            IN TableIngredients(recipe, rate, SetAdd(seen, recipe.key), acc1, 1))

\* variant: an ingredient whose recipe is already on the path is booked as
\* a raw material
TableIngredients_RawOnCut(recipe, rate, seen, acc, i) ==
  IF i > Len(recipe.ingredients) THEN acc
  ELSE LET ingredient == recipe.ingredients[i]
           ingredientRate == IngredientRate(recipe, ingredient, rate)
           acc1 == [acc EXCEPT
                      !.recipes[IndexOf(acc.recipes, recipe.key)].ingredients =
                         Append(@, [name |-> ingredient.name, rate |-> Round2(ingredientRate)]),
                      !.items = TableAddConsumed(@, ingredient.name, recipe.key, ingredientRate)]
           ingredientRecipe == FindRecipeForItem(ingredient.name)
           acc2 == IF ingredientRecipe # Null /\ ~SetHas(seen, ingredientRecipe.key)
                   THEN ProcessRecipe(ingredientRecipe, ingredientRate, seen, acc1)
                   ELSE [acc1 EXCEPT !.rawMaterials =
                           AddRequirement(@, ingredient.name, Round2(ingredientRate))]
       IN TableIngredients(recipe, rate, seen, acc2, i + 1)

\* variant: the ingredient's recipe is processed at the parent's rate
TableIngredients_ParentRate(recipe, rate, seen, acc, i) ==
  IF i > Len(recipe.ingredients) THEN acc
  ELSE LET ingredient == recipe.ingredients[i]
           ingredientRate == IngredientRate(recipe, ingredient, rate)
           acc1 == [acc EXCEPT
                      !.recipes[IndexOf(acc.recipes, recipe.key)].ingredients =
                         Append(@, [name |-> ingredient.name, rate |-> Round2(ingredientRate)]),
                      !.items = TableAddConsumed(@, ingredient.name, recipe.key, ingredientRate)]
           ingredientRecipe == FindRecipeForItem(ingredient.name)
           acc2 == IF ingredientRecipe # Null
                   THEN ProcessRecipe(ingredientRecipe, rate, seen, acc1)
                   ELSE [acc1 EXCEPT !.rawMaterials =
                           AddRequirement(@, ingredient.name, Round2(ingredientRate))]
       IN TableIngredients(recipe, rate, seen, acc2, i + 1)

TableIngredients(recipe, rate, seen, acc, i) ==
  IF i > Len(recipe.ingredients) THEN acc
  ELSE LET ingredient == recipe.ingredients[i]
           ingredientRate == IngredientRate(recipe, ingredient, rate)
           acc1 == [acc EXCEPT
                      !.recipes[IndexOf(acc.recipes, recipe.key)].ingredients =
                         Append(@, [name |-> ingredient.name, rate |-> Round2(ingredientRate)]),
                      !.items = TableAddConsumed(@, ingredient.name, recipe.key, ingredientRate)]
           ingredientRecipe == FindRecipeForItem(ingredient.name)
           acc2 == IF ingredientRecipe # Null
                   THEN ProcessRecipe(ingredientRecipe, ingredientRate, seen, acc1)
                   ELSE [acc1 EXCEPT !.rawMaterials =
                           AddRequirement(@, ingredient.name, Round2(ingredientRate))]
       IN TableIngredients(recipe, rate, seen, acc2, i + 1)

\* returns [out |-> table, g |-> ghost]
GenerateRecipeTable(recipe, targetRate, g) ==
  LET acc == ProcessRecipe(recipe, targetRate, <<>>,
                [recipes |-> <<>>, items |-> <<>>, rawMaterials |-> <<>>, g |-> g])
  IN [out |-> [recipes |-> acc.recipes,
               items |-> acc.items,
               rawMaterials |-> SortByRateDesc(acc.rawMaterials)],
      g |-> acc.g]

----------------------------------------------------------------------------
(* Request handlers of the calculator API server *)

Idle == [status |-> 0]

NoReq == [op |-> "none"]

BadRequest == [status |-> 400]

NotFound == [status |-> 404]

Formats == {"none", "sankey", "tree", "table"}

\* app.post('/calculate')
PostCalculate(itemName, rate, format) ==
  /\ res = Idle
  /\ req' = [op |-> "calculate", itemName |-> itemName, rate |-> rate, format |-> format]
  /\ IF rate = Zero
     THEN res' = BadRequest /\ ghost' = NoGhost
     ELSE LET recipe == FindRecipeForItem(itemName) IN
          IF recipe = Null
          THEN res' = NotFound /\ ghost' = NoGhost
          ELSE LET result == CalculateRequirements(recipe, rate) IN
               CASE format = "sankey" ->
                      LET v == GenerateSankeyData(recipe, rate, SankeyDepth, result.g) IN
                      /\ res' = [status |-> 200, body |-> result.out, sankey |-> v.out]
                      /\ ghost' = v.g
                 [] format = "tree" ->
                      /\ res' = [status |-> 200, body |-> result.out,
                                 tree |-> GenerateRecipeTree(recipe, rate, TreeDepth)]
                      /\ ghost' = result.g
                 [] format = "table" ->
                      LET v == GenerateRecipeTable(recipe, rate, result.g) IN
                      /\ res' = [status |-> 200, body |-> result.out, table |-> v.out]
                      /\ ghost' = v.g
                 [] OTHER ->
                      /\ res' = [status |-> 200, body |-> result.out]
                      /\ ghost' = result.g
  /\ UNCHANGED factorioData

\* app.post('/sankey')
PostSankey(itemName, rate) ==
  /\ res = Idle
  /\ req' = [op |-> "sankey", itemName |-> itemName, rate |-> rate]
  /\ IF rate = Zero
     THEN res' = BadRequest /\ ghost' = NoGhost
     ELSE LET recipe == FindRecipeForItem(itemName) IN
          IF recipe = Null
          THEN res' = NotFound /\ ghost' = NoGhost
          ELSE LET v == GenerateSankeyData(recipe, rate, SankeyDepth, NoGhost) IN
               /\ res' = [status |-> 200, sankey |-> v.out]
               /\ ghost' = v.g
  /\ UNCHANGED factorioData

\* app.post('/tree')
PostTree(itemName, rate) ==
  /\ res = Idle
  /\ req' = [op |-> "tree", itemName |-> itemName, rate |-> rate]
  /\ IF rate = Zero
     THEN res' = BadRequest
     ELSE LET recipe == FindRecipeForItem(itemName) IN
          IF recipe = Null
          THEN res' = NotFound
          ELSE res' = [status |-> 200, tree |-> GenerateRecipeTree(recipe, rate, TreeDepth)]
  /\ ghost' = NoGhost
  /\ UNCHANGED factorioData

\* app.post('/table')
PostTable(itemName, rate) ==
  /\ res = Idle
  /\ req' = [op |-> "table", itemName |-> itemName, rate |-> rate]
  /\ IF rate = Zero
     THEN res' = BadRequest /\ ghost' = NoGhost
     ELSE LET recipe == FindRecipeForItem(itemName) IN
          IF recipe = Null
          THEN res' = NotFound /\ ghost' = NoGhost
          ELSE LET v == GenerateRecipeTable(recipe, rate, NoGhost) IN
               /\ res' = [status |-> 200, table |-> v.out]
               /\ ghost' = v.g
  /\ UNCHANGED factorioData

----------------------------------------------------------------------------
(* Knowledge-graph server *)

RecipeId(recipeKey) == <<"recipe:", recipeKey>>

ItemId(itemName) == <<"item:", itemName>>

HasNode(nodes, id) == \E i \in DOMAIN nodes : nodes[i].id = id

\* addNode(id, type, name): the node list after the call
AddNode(nodes, id, type, name) ==
  IF HasNode(nodes, id) THEN nodes
  ELSE Append(nodes, [id |-> id, type |-> type, name |-> name])

\* result.amount || 1
AmountOr1(entry) == IF entry.amount = 0 THEN 1 ELSE entry.amount

\* variant: a link with the same ends and relationship is not added again
AddLinkComplete_Dedup(nodes, links, source, target, relationship, amount) ==
  IF HasNode(nodes, source) /\ HasNode(nodes, target)
     /\ ~\E i \in DOMAIN links : /\ links[i].source = source
                                  /\ links[i].target = target
                                  /\ links[i].relationship = relationship
  THEN Append(links, [source |-> source, target |-> target,
                      relationship |-> relationship, amount |-> amount])
  ELSE links

\* addLink of generateCompleteGraph: appended whenever both ends are nodes
AddLinkComplete(nodes, links, source, target, relationship, amount) ==
  IF HasNode(nodes, source) /\ HasNode(nodes, target)
  THEN Append(links, [source |-> source, target |-> target,
                      relationship |-> relationship, amount |-> amount])
  ELSE links

RECURSIVE CompleteOutputs(_, _, _)
CompleteOutputs(recipe, acc, k) ==
  IF k > Len(recipe.results) THEN acc
  ELSE LET result == recipe.results[k]
           nodes1 == AddNode(acc.nodes, ItemId(result.name), "item", result.name)
       IN CompleteOutputs(recipe,
            [nodes |-> nodes1,
             links |-> AddLinkComplete(nodes1, acc.links, RecipeId(recipe.key),
                          ItemId(result.name), "produces", AmountOr1(result))],
            k + 1)

RECURSIVE CompleteInputs(_, _, _)
CompleteInputs(recipe, acc, k) ==
  IF k > Len(recipe.ingredients) THEN acc
  ELSE LET ingredient == recipe.ingredients[k]
           nodes1 == AddNode(acc.nodes, ItemId(ingredient.name), "item", ingredient.name)
       IN CompleteInputs(recipe,
            [nodes |-> nodes1,
             links |-> AddLinkComplete(nodes1, acc.links, ItemId(ingredient.name),
                          RecipeId(recipe.key), "consumedBy", ingredient.amount)],
            k + 1)

RECURSIVE CompleteRecipes(_, _)
CompleteRecipes(acc, i) ==
  IF i > Len(factorioData) THEN acc
  ELSE LET recipe == factorioData[i]
           acc1 == [acc EXCEPT !.nodes = AddNode(@, RecipeId(recipe.key), "recipe", recipe.key)]
       IN CompleteRecipes(CompleteInputs(recipe, CompleteOutputs(recipe, acc1, 1), 1), i + 1)

GenerateCompleteGraph == CompleteRecipes([nodes |-> <<>>, links |-> <<>>], 1)

\* variant: the link is stored with its ends exchanged
AddLink_Swapped(nodes, links, source, target, relationship, amount) ==
  IF HasNode(nodes, source) /\ HasNode(nodes, target)
     /\ ~\E i \in DOMAIN links : /\ links[i].source = target
                                  /\ links[i].target = source
                                  /\ links[i].relationship = relationship
  THEN Append(links, [source |-> target, target |-> source,
                      relationship |-> relationship, amount |-> amount])
  ELSE links

\* addLink of generateItemSubgraph: skipped when a link with the same
\* source, target and relationship exists
AddLink(nodes, links, source, target, relationship, amount) ==
  IF HasNode(nodes, source) /\ HasNode(nodes, target)
     /\ ~\E i \in DOMAIN links : /\ links[i].source = source
                                  /\ links[i].target = target
                                  /\ links[i].relationship = relationship
  THEN Append(links, [source |-> source, target |-> target,
                      relationship |-> relationship, amount |-> amount])
  ELSE links

\* variant: only the first listed result counts as produced
Produces_Primary(recipe, itemName) ==
  recipe.results[1].name = itemName

Produces(recipe, itemName) ==
  \E k \in DOMAIN recipe.results : recipe.results[k].name = itemName

Consumes(recipe, itemName) ==
  \E k \in DOMAIN recipe.ingredients : recipe.ingredients[k].name = itemName

\* list.find(e => e.name === itemName)?.amount || 1
FirstAmountOr1(list, itemName) ==
  AmountOr1(list[CHOOSE k \in DOMAIN list :
                   /\ list[k].name = itemName
                   /\ \A j \in 1..(k - 1) : list[j].name # itemName])

RECURSIVE ExploreItem(_, _, _, _, _)
RECURSIVE ExploreRecipes(_, _, _, _, _, _)
RECURSIVE ExploreIngredients(_, _, _, _, _, _)
RECURSIVE ExploreProducts(_, _, _, _, _, _)
\* acc = [nodes, links, g]
ExploreItem(itemName, currentDepth, visited, maxDepth, acc) ==
  IF acc.g.depth >= StackBudget THEN Overrun(acc)
  ELSE Leave(LET acc0 == Enter(acc) IN
       IF currentDepth > maxDepth THEN acc0
       ELSE IF SetHas(visited, itemName) THEN acc0
       ELSE ExploreRecipes(itemName, currentDepth, SetAdd(visited, itemName), maxDepth,
               [acc0 EXCEPT !.nodes = AddNode(@, ItemId(itemName), "item", itemName)], 1))

ExploreRecipes(itemName, currentDepth, visited, maxDepth, acc, i) ==
  IF i > Len(factorioData) THEN acc
  ELSE LET recipe == factorioData[i]
           recipeId == RecipeId(recipe.key)
           acc1 == IF Produces(recipe, itemName)
                   THEN LET nodes1 == AddNode(acc.nodes, recipeId, "recipe", recipe.key)
                        IN ExploreIngredients(recipe, currentDepth, visited, maxDepth,
                             [acc EXCEPT
                                !.nodes = nodes1,
                                !.links = AddLink(nodes1, @, recipeId, ItemId(itemName),
                                             "produces",
                                             FirstAmountOr1(recipe.results, itemName))],
                             1)
                   ELSE acc
           acc2 == IF Consumes(recipe, itemName)
                   THEN LET nodes1 == AddNode(acc1.nodes, recipeId, "recipe", recipe.key)
                        IN ExploreProducts(recipe, currentDepth, visited, maxDepth,
                             [acc1 EXCEPT
                                !.nodes = nodes1,
                                !.links = AddLink(nodes1, @, ItemId(itemName), recipeId,
                                             "consumedBy",
                                             FirstAmountOr1(recipe.ingredients, itemName))],
                             1)
                   ELSE acc1
       IN ExploreRecipes(itemName, currentDepth, visited, maxDepth, acc2, i + 1)

\* variant: the recursion into an ingredient does not count a hop
ExploreIngredients_SameDepth(recipe, currentDepth, visited, maxDepth, acc, k) ==
  IF k > Len(recipe.ingredients) THEN acc
  ELSE LET ingredient == recipe.ingredients[k]
           nodes1 == AddNode(acc.nodes, ItemId(ingredient.name), "item", ingredient.name)
           acc1 == [acc EXCEPT
                      !.nodes = nodes1,
                      !.links = AddLink(nodes1, @, ItemId(ingredient.name),
                                   RecipeId(recipe.key), "consumedBy", ingredient.amount)]
           acc2 == IF currentDepth < maxDepth
                   THEN ExploreItem(ingredient.name, currentDepth, visited, maxDepth, acc1)
                   ELSE acc1
       IN ExploreIngredients(recipe, currentDepth, visited, maxDepth, acc2, k + 1)

ExploreIngredients(recipe, currentDepth, visited, maxDepth, acc, k) ==
  IF k > Len(recipe.ingredients) THEN acc
  ELSE LET ingredient == recipe.ingredients[k]
           nodes1 == AddNode(acc.nodes, ItemId(ingredient.name), "item", ingredient.name)
           acc1 == [acc EXCEPT
                      !.nodes = nodes1,
                      !.links = AddLink(nodes1, @, ItemId(ingredient.name),
                                   RecipeId(recipe.key), "consumedBy", ingredient.amount)]
           acc2 == IF currentDepth < maxDepth
                   THEN ExploreItem(ingredient.name, currentDepth + 1, visited, maxDepth, acc1)
                   ELSE acc1
       IN ExploreIngredients(recipe, currentDepth, visited, maxDepth, acc2, k + 1)

ExploreProducts(recipe, currentDepth, visited, maxDepth, acc, k) ==
  IF k > Len(recipe.results) THEN acc
  ELSE LET result == recipe.results[k]
           nodes1 == AddNode(acc.nodes, ItemId(result.name), "item", result.name)
           acc1 == [acc EXCEPT
                      !.nodes = nodes1,
                      !.links = AddLink(nodes1, @, RecipeId(recipe.key),
                                   ItemId(result.name), "produces", AmountOr1(result))]
           acc2 == IF currentDepth < maxDepth
                   THEN ExploreItem(result.name, currentDepth + 1, visited, maxDepth, acc1)
                   ELSE acc1
       IN ExploreProducts(recipe, currentDepth, visited, maxDepth, acc2, k + 1)

\* returns [out |-> {nodes, links}, g |-> ghost]
GenerateItemSubgraph(itemName, maxDepth, g) ==
  LET acc == ExploreItem(itemName, 0, <<>>, maxDepth,
                         [nodes |-> <<>>, links |-> <<>>, g |-> g])
  IN [out |-> [nodes |-> acc.nodes, links |-> acc.links], g |-> acc.g]

\* variant: the source is left out of the link id
LinkId_NoSource(link) == <<link.target, "|", link.relationship>>

\* `${link.source}|${link.target}|${link.relationship}`
LinkId(link) == <<link.source, "|", link.target, "|", link.relationship>>

RECURSIVE MergeNodes(_, _, _)
MergeNodes(nodes, subNodes, k) ==
  IF k > Len(subNodes) THEN nodes
  ELSE MergeNodes(IF HasNode(nodes, subNodes[k].id) THEN nodes
                  ELSE Append(nodes, subNodes[k]),
                  subNodes, k + 1)

RECURSIVE MergeLinks(_, _, _)
MergeLinks(links, subLinks, k) ==
  IF k > Len(subLinks) THEN links
  ELSE MergeLinks(IF \E i \in DOMAIN links : LinkId(links[i]) = LinkId(subLinks[k])
                  THEN links
                  ELSE Append(links, subLinks[k]),
                  subLinks, k + 1)

RECURSIVE MultiItems(_, _, _, _)
\* items.forEach(...) of the /multi-item-graph handler; acc = [nodes, links, g]
MultiItems(items, depth, acc, i) ==
  IF i > Len(items) THEN acc
  ELSE LET subgraph == GenerateItemSubgraph(items[i], depth, acc.g) IN
       MultiItems(items, depth,
                  [nodes |-> MergeNodes(acc.nodes, subgraph.out.nodes, 1),
                   links |-> MergeLinks(acc.links, subgraph.out.links, 1),
                   g |-> subgraph.g],
                  i + 1)

Depths == 0..MaxDepth

\* item names sent as seeds of a /multi-item-graph request
SeedItems == {"x", "ore"}

SeedLists == UNION { [1..n -> SeedItems] : n \in 0..MaxSeeds }

\* app.get('/complete-graph')
GetCompleteGraph ==
  /\ res = Idle
  /\ req' = [op |-> "complete-graph"]
  /\ res' = [status |-> 200, graph |-> GenerateCompleteGraph]
  /\ ghost' = NoGhost
  /\ UNCHANGED factorioData

\* app.get('/item-graph/:itemName')
GetItemGraph(itemName, depth) ==
  /\ res = Idle
  /\ req' = [op |-> "item-graph", itemName |-> itemName, depth |-> depth]
  /\ LET v == GenerateItemSubgraph(itemName, depth, NoGhost) IN
     /\ res' = [status |-> 200, graph |-> v.out]
     /\ ghost' = v.g
  /\ UNCHANGED factorioData

\* app.post('/multi-item-graph')
PostMultiItemGraph(items, depth) ==
  /\ res = Idle
  /\ req' = [op |-> "multi-item-graph", items |-> items, depth |-> depth]
  /\ IF Len(items) = 0
     THEN res' = BadRequest /\ ghost' = NoGhost
     ELSE LET acc == MultiItems(items, depth,
                        [nodes |-> <<>>, links |-> <<>>, g |-> NoGhost], 1) IN
          /\ res' = [status |-> 200, graph |-> [nodes |-> acc.nodes, links |-> acc.links]]
          /\ ghost' = acc.g
  /\ UNCHANGED factorioData

\* the response has been sent; the server waits for the next request
EndRequest ==
  /\ res # Idle
  /\ res' = Idle
  /\ req' = NoReq
  /\ ghost' = NoGhost
  /\ UNCHANGED factorioData

Init ==
  /\ factorioData \in Datasets
  /\ req = NoReq
  /\ res = Idle
  /\ ghost = NoGhost

Next ==
  \/ \E itemName \in Items, rate \in Rates, format \in Formats :
        PostCalculate(itemName, rate, format)
  \/ \E itemName \in Items, rate \in Rates : PostSankey(itemName, rate)
  \/ \E itemName \in Items, rate \in Rates : PostTree(itemName, rate)
  \/ \E itemName \in Items, rate \in Rates : PostTable(itemName, rate)
  \/ GetCompleteGraph
  \/ \E itemName \in Items, depth \in Depths : GetItemGraph(itemName, depth)
  \/ \E items \in SeedLists, depth \in Depths : PostMultiItemGraph(items, depth)
  \/ EndRequest

Spec == Init /\ [][Next]_vars

\* the flow endpoint alone, over datasets whose chains reach the depth limit
InitFlow ==
  /\ factorioData \in FlowDatasets
  /\ req = NoReq
  /\ res = Idle
  /\ ghost = NoGhost

NextFlow ==
  \/ \E itemName \in Items, rate \in Rates : PostSankey(itemName, rate)
  \/ EndRequest

SpecFlow == InitFlow /\ [][NextFlow]_vars

----------------------------------------------------------------------------
(* Properties *)

Ok200 == res.status = 200

HasBody == Ok200 /\ req.op = "calculate"

HasTree == Ok200 /\ (req.op = "tree" \/ (req.op = "calculate" /\ req.format = "tree"))

HasTable == Ok200 /\ (req.op = "table" \/ (req.op = "calculate" /\ req.format = "table"))

HasSankey == Ok200 /\ (req.op = "sankey" \/ (req.op = "calculate" /\ req.format = "sankey"))

\* some recipe of the dataset lists itemName among its results
HasProducer(itemName) ==
  \E i \in DOMAIN factorioData : \E k \in DOMAIN factorioData[i].results :
     factorioData[i].results[k].name = itemName

RootRecipe == FindRecipeForItem(req.itemName)

\* the values of the links root recipe -> root output item of a flow graph
RootLinkValues(sankey) ==
  LET r == SankeyNodeId(sankey.nodes, RecipeNodeName(RootRecipe.key))
      o == SankeyNodeId(sankey.nodes, ItemNodeName(RootRecipe.results[1].name))
  IN { sankey.links[i].value : i \in { j \in DOMAIN sankey.links :
          sankey.links[j].source = r /\ sankey.links[j].target = o } }

RootTableEntries(table) ==
  { i \in DOMAIN table.recipes : table.recipes[i].name = RootRecipe.key }

TreeAndTableRootRate ==
  /\ HasTree => res.tree.rate = req.rate
  /\ HasTable => /\ Cardinality(RootTableEntries(res.table)) = 1
                 /\ \A i \in RootTableEntries(res.table) :
                       res.table.recipes[i].outputRate = req.rate

\* C1 as stated: the root's rate equals the requested rate exactly in the
\* tree, in the table and as the value of the flow graph's root link.
C1_RootRateExact ==
  /\ TreeAndTableRootRate
  /\ HasSankey => RootLinkValues(res.sankey) = {req.rate}

\* C1 (amended): the tree root's rate and the table's root outputRate equal
\* the requested rate exactly; the flow graph has exactly one link from the
\* root recipe to its output item and its value is the requested rate
\* raised to the 0.01 floor, hence the requested rate whenever it is >= 0.01.
C1_RootRate ==
  /\ TreeAndTableRootRate
  /\ HasSankey =>
       RootLinkValues(res.sankey) =
         { IF 100 * req.rate[1] < req.rate[2] THEN <<1, 100>> ELSE req.rate }

\* a flow graph for a rate below 0.01 whose walk came back to the root's output
C1_Witness ==
  /\ HasSankey
  /\ RLess(req.rate, <<1, 100>>)
  /\ \E i \in DOMAIN res.sankey.links :
        res.sankey.links[i].source =
          SankeyNodeId(res.sankey.nodes, ItemNodeName(RootRecipe.results[1].name))

----------------------------------------------------------------------------

RECURSIVE TreeHeight(_)
TreeHeight(node) ==
  IF "children" \notin DOMAIN node THEN 1
  ELSE IF node.children = <<>> THEN 1
  ELSE LET h == { TreeHeight(node.children[i]) : i \in DOMAIN node.children }
       IN 1 + CHOOSE m \in h : \A k \in h : k <= m

Events == ghost.events

\* the ingredient of event e is produced by a recipe already on e's path
CycleClosing(e) ==
  /\ HasProducer(e.item)
  /\ SetHas(e.seen, FindRecipeForItem(e.item).key)

\* C2: computeAggregateDemand, buildTable, buildTree and buildFlowGraph
\* terminate on every dataset, cyclic ones included: no walk runs past the
\* activation budget, no path of the demand walk is longer than the number
\* of recipes, and the tree is at most TreeDepth + 1 levels high.
C2_Terminates ==
  /\ ~ghost.overrun
  /\ \A i \in DOMAIN Events : Len(Events[i].seen) <= Len(factorioData)
  /\ HasTree => TreeHeight(res.tree) <= TreeDepth + 1

\* a demand walk followed by a table walk over a dataset with a cycle
C2_Witness ==
  /\ HasTable /\ req.op = "calculate"
  /\ \E i \in DOMAIN Events : CycleClosing(Events[i])
  /\ Len(ghost.occ) >= 2

NoRepeat(seq) == \A i, j \in DOMAIN seq : i # j => seq[i] # seq[j]

RECURSIVE EventSum(_, _)
\* sum of the logged amounts for itemName over the first n events
EventSum(itemName, n) ==
  IF n = 0 THEN Zero
  ELSE IF Events[n].item = itemName
       THEN RAdd(EventSum(itemName, n - 1), Events[n].amount)
       ELSE EventSum(itemName, n - 1)

\* requirements[itemName] after calculateFullRequirements
Demand(itemName) == ghost.requirements[IndexOf(ghost.requirements, itemName)].rate

DemandNames == { ghost.requirements[i].name : i \in DOMAIN ghost.requirements }

\* ingredient positions of recipe whose item has a producer
ProducedIngredients(recipe) ==
  { k \in DOMAIN recipe.ingredients : HasProducer(recipe.ingredients[k].name) }

\* the request's walk is the two-recipe cycle: the root recipe has one
\* produced ingredient (k1), made by another recipe whose only produced
\* ingredient (k2) is made by the root recipe
IsTwoCycle(k1, k2) ==
  /\ ProducedIngredients(RootRecipe) = {k1}
  /\ LET r2 == FindRecipeForItem(RootRecipe.ingredients[k1].name) IN
     /\ r2.key # RootRecipe.key
     /\ ProducedIngredients(r2) = {k2}
     /\ FindRecipeForItem(r2.ingredients[k2].name).key = RootRecipe.key

\* C3: an ingredient whose recipe is already on the current path still adds
\* its demand, once, and that recipe is not expanded again on the path: no
\* path holds a recipe twice, no edge of a path is added twice, every total
\* is the sum of the logged additions, and in the two-recipe cycle X<->Y the
\* totals of Y and of X are exactly one contribution each.
C3_CycleEdgeOnce ==
  HasBody =>
    /\ \A i \in DOMAIN Events :
          /\ NoRepeat(Events[i].seen)
          /\ Events[i].seen[Len(Events[i].seen)] = Events[i].recipe
    /\ \A i, j \in DOMAIN Events :
          (i # j /\ Events[i].seen = Events[j].seen) => Events[i].idx # Events[j].idx
    /\ DemandNames = { Events[i].item : i \in DOMAIN Events }
    /\ \A n \in DemandNames : Demand(n) = EventSum(n, Len(Events))
    /\ \A k1 \in DOMAIN RootRecipe.ingredients :
         LET y == RootRecipe.ingredients[k1]
             r2 == FindRecipeForItem(y.name)
             rateY == Rat(y.amount * req.rate[1], req.rate[2] * OutputAmount(RootRecipe))
         IN \A k2 \in (IF r2 = Null THEN {} ELSE DOMAIN r2.ingredients) :
              IsTwoCycle(k1, k2) =>
                LET x == r2.ingredients[k2]
                    rateX == Rat(x.amount * rateY[1], rateY[2] * OutputAmount(r2))
                IN /\ {x.name, y.name} \subseteq DemandNames
                   /\ Demand(y.name) = rateY
                   /\ Demand(x.name) = rateX
                   /\ Cardinality({ i \in DOMAIN Events : CycleClosing(Events[i]) }) = 1

\* the aggregate demand of a two-recipe cycle
C3_Witness ==
  /\ HasBody
  /\ \E k1 \in DOMAIN RootRecipe.ingredients :
       LET r2 == FindRecipeForItem(RootRecipe.ingredients[k1].name) IN
       \E k2 \in (IF r2 = Null THEN {} ELSE DOMAIN r2.ingredients) : IsTwoCycle(k1, k2)

----------------------------------------------------------------------------

\* largest number of ingredients of a recipe of the dataset
MaxIngredients ==
  LET n == { Len(factorioData[i].ingredients) : i \in DOMAIN factorioData }
  IN CHOOSE m \in n : \A k \in n : k <= m

\* ingredient paths as lists of ingredient positions: p[1] picks an
\* ingredient of the root recipe, p[2] one of that ingredient's recipe, ...
PathsOfLength(n) == [1..n -> 1..MaxIngredients]

RECURSIVE PathEnd(_, _, _, _)
\* follows p from position i on, entering recipe at rate; the item reached
\* and its rate, or ok = FALSE when p is not a path of the dataset
PathEnd(recipe, rate, p, i) ==
  IF p[i] > Len(recipe.ingredients) THEN [ok |-> FALSE]
  ELSE LET ingredient == recipe.ingredients[p[i]]
           r == Rat(ingredient.amount * rate[1], rate[2] * OutputAmount(recipe))
       IN IF i = Len(p) THEN [ok |-> TRUE, item |-> ingredient.name, rate |-> r]
          ELSE IF ~HasProducer(ingredient.name) THEN [ok |-> FALSE]
          ELSE PathEnd(FindRecipeForItem(ingredient.name), r, p, i + 1)

ValidPaths(n) == { p \in PathsOfLength(n) : PathEnd(RootRecipe, req.rate, p, 1).ok }

\* the walk from the root recipe meets no cycle: with N recipes, no
\* ingredient path has N + 1 edges
WalkAcyclic == ValidPaths(Len(factorioData) + 1) = {}

AllPaths == UNION { ValidPaths(n) : n \in 1..Len(factorioData) }

RECURSIVE SumOver(_, _)
\* sum of the end rates of the paths of P that end at itemName
SumOver(P, itemName) ==
  IF P = {} THEN Zero
  ELSE LET p == CHOOSE q \in P : TRUE
           e == PathEnd(RootRecipe, req.rate, p, 1)
       IN IF e.item = itemName
          THEN RAdd(e.rate, SumOver(P \ {p}, itemName))
          ELSE SumOver(P \ {p}, itemName)

\* C4: on an acyclic dataset the aggregate demand of an item is the sum,
\* over every ingredient path from the target's recipe to that item, of the
\* rate times the amount ratios along the path; a recipe met on two
\* branches is expanded on both.
C4_PathSum ==
  (HasBody /\ WalkAcyclic) =>
    /\ DemandNames = { PathEnd(RootRecipe, req.rate, p, 1).item : p \in AllPaths }
    /\ \A n \in DemandNames : Demand(n) = SumOver(AllPaths, n)

\* acyclic demand walk in which one recipe is expanded on two branches
C4_Witness ==
  /\ HasBody /\ WalkAcyclic
  /\ \E i, j \in DOMAIN Events :
        /\ Events[i].recipe = Events[j].recipe
        /\ Events[i].idx = Events[j].idx
        /\ Events[i].seen # Events[j].seen

\* ceil(r * craftingTime / (outputAmount * 1.25) * 100) / 100 in integers:
\* r = rn/rd, craftingTime = tn/td, 1.25 = 5/4
MachineCount(recipe, r) ==
  LET tn == IF recipe.energy_required = 0 THEN 1 ELSE recipe.energy_required
      td == IF recipe.energy_required = 0 THEN 2 ELSE 1
      out == IF recipe.results[1].amount = 0 THEN 1 ELSE recipe.results[1].amount
      num == 100 * r[1] * tn * 4
      den == r[2] * td * out * 5
  IN Rat((num + den - 1) \div den, 100)

RecipeByKey(key) ==
  factorioData[CHOOSE i \in DOMAIN factorioData : factorioData[i].key = key]

RECURSIVE TreeMachinesOk(_, _, _)
\* node was built for recipe at inbound rate r (the unrounded rate)
TreeMachinesOk(node, recipe, r) ==
  /\ node.recipe = recipe.key
  /\ node.machines = MachineCount(recipe, r)
  /\ node.children # <<>> =>
       /\ Len(node.children) = Len(recipe.ingredients)
       /\ \A i \in DOMAIN node.children :
            "recipe" \in DOMAIN node.children[i] =>
               TreeMachinesOk(node.children[i],
                              FindRecipeForItem(recipe.ingredients[i].name),
                              Rat(recipe.ingredients[i].amount * r[1],
                                  r[2] * OutputAmount(recipe)))

Occurrences(key) == { i \in DOMAIN ghost.occ : ghost.occ[i].name = key }

\* the documented example: ingredients a:1, b:2, output 1, time 1, rate 10
IsExample ==
  /\ req.rate = <<10, 1>>
  /\ RootRecipe.energy_required = 1
  /\ RootRecipe.results[1].amount = 1
  /\ Len(RootRecipe.ingredients) = 2
  /\ RootRecipe.ingredients[1].amount = 1
  /\ RootRecipe.ingredients[2].amount = 2

\* C5: every machine count of a recipe occurrence with inbound rate r is
\* ceil(r * craftingTime / (primaryOutputAmount * 1.25) * 100) / 100, with
\* craftingTime 0.5 and primaryOutputAmount 1 when absent: in the calculate
\* result, in every tree node with a recipe, and in the table for a first
\* (only) occurrence; the example gives 8 machines and demands 10 and 20.
C5_MachineCount ==
  /\ HasBody =>
       /\ res.body.machinesNeeded = MachineCount(RootRecipe, req.rate)
       /\ IsExample =>
            /\ res.body.machinesNeeded = <<8, 1>>
            /\ res.body.ingredients[1].amountPerSecond = <<10, 1>>
            /\ res.body.ingredients[2].amountPerSecond = <<20, 1>>
  /\ HasTree => TreeMachinesOk(res.tree, RootRecipe, req.rate)
  /\ HasTable =>
       \A i \in DOMAIN res.table.recipes :
         LET e == res.table.recipes[i] IN
         \A o \in Occurrences(e.name) :
           Occurrences(e.name) = {o} =>
             e.machines = MachineCount(RecipeByKey(e.name), ghost.occ[o].rate)

\* the example recipe at rate 10, with a tree that has a recipe below the root
C5_Witness ==
  /\ HasTree /\ req.op = "calculate"
  /\ IsExample
  /\ \E i \in DOMAIN res.tree.children : "recipe" \in DOMAIN res.tree.children[i]

----------------------------------------------------------------------------

\* item names listed as an ingredient or a result of some recipe
ReferencedItems ==
  UNION { { factorioData[i].ingredients[k].name : k \in DOMAIN factorioData[i].ingredients }
          \cup { factorioData[i].results[k].name : k \in DOMAIN factorioData[i].results }
          : i \in DOMAIN factorioData }

RECURSIVE EntryCount(_)
\* ingredient entries plus result entries of the first n recipes
EntryCount(n) ==
  IF n = 0 THEN 0
  ELSE EntryCount(n - 1) + Len(factorioData[n].ingredients) + Len(factorioData[n].results)

IsComplete == Ok200 /\ req.op = "complete-graph"

\* C6: buildCompleteGraph returns (number of recipes) + (number of distinct
\* referenced items) nodes and (ingredient entries + result entries) edges;
\* no edge is dropped or merged when a recipe lists an item twice.
C6_CompleteGraphCounts ==
  IsComplete =>
    /\ Len(res.graph.nodes) = Len(factorioData) + Cardinality(ReferencedItems)
    /\ Len(res.graph.links) = EntryCount(Len(factorioData))

\* the complete graph of a dataset with a recipe that lists an item twice
C6_Witness ==
  /\ IsComplete
  /\ \E i \in DOMAIN factorioData : \E k, l \in DOMAIN factorioData[i].ingredients :
        k # l /\ factorioData[i].ingredients[k].name = factorioData[i].ingredients[l].name

NodeIds(graph) == { graph.nodes[i].id : i \in DOMAIN graph.nodes }

Triples(graph) ==
  { <<graph.links[i].source, graph.links[i].target, graph.links[i].relationship>> :
      i \in DOMAIN graph.links }

IsMulti == Ok200 /\ req.op = "multi-item-graph"

\* buildItemSubgraph for the i-th seed of the request
SeedGraph(i) == GenerateItemSubgraph(req.items[i], req.depth, NoGhost).out

\* C7: buildMultiItemGraph(seeds, depth) is the union of the per-seed
\* subgraphs: its node ids are exactly the ids of the per-seed results, its
\* (source, target, relationship) triples exactly their triples, and no id
\* and no triple occurs twice.
C7_MultiIsUnion ==
  IsMulti =>
    /\ NodeIds(res.graph) = UNION { NodeIds(SeedGraph(i)) : i \in DOMAIN req.items }
    /\ Triples(res.graph) = UNION { Triples(SeedGraph(i)) : i \in DOMAIN req.items }
    /\ Len(res.graph.nodes) = Cardinality(NodeIds(res.graph))
    /\ Len(res.graph.links) = Cardinality(Triples(res.graph))

\* two seeds whose subgraphs overlap and neither of which covers the other
C7_Witness ==
  /\ IsMulti
  /\ Len(req.items) = 2
  /\ NodeIds(SeedGraph(1)) \cap NodeIds(SeedGraph(2)) # {}
  /\ ~(Triples(SeedGraph(1)) \subseteq Triples(SeedGraph(2)))
  /\ ~(Triples(SeedGraph(2)) \subseteq Triples(SeedGraph(1)))

\* C8: in a buildTable output no item is both a raw material and the item
\* produced by an entry of table.recipes.
C8_RawNotProduced ==
  HasTable =>
    { res.table.rawMaterials[i].name : i \in DOMAIN res.table.rawMaterials }
      \cap { res.table.recipes[i].produces : i \in DOMAIN res.table.recipes } = {}

\* a table with raw materials, built by a walk that met a cycle and visited
\* a recipe with several results
C8_Witness ==
  /\ Ok200 /\ req.op = "table"
  /\ res.table.rawMaterials # <<>>
  /\ ghost.calls > Len(ghost.occ)
  /\ \E i \in DOMAIN ghost.occ : Len(RecipeByKey(ghost.occ[i].name).results) > 1

RECURSIVE TreeRawOk(_, _)
\* below node (built for recipe) a child is tagged raw, and has neither a
\* recipe nor children, exactly when its item has no producer
TreeRawOk(node, recipe) ==
  node.children # <<>> =>
    /\ Len(node.children) = Len(recipe.ingredients)
    /\ \A i \in DOMAIN node.children :
         LET child == node.children[i] IN
         /\ child.item = recipe.ingredients[i].name
         /\ IF HasProducer(child.item)
            THEN /\ "type" \notin DOMAIN child
                 /\ "recipe" \in DOMAIN child
                 /\ TreeRawOk(child, FindRecipeForItem(child.item))
            ELSE /\ DOMAIN child = {"item", "rate", "type"}
                 /\ child.type = "raw"

CalculatorOps == {"calculate", "sankey", "tree", "table"}

\* C10: a (valid) query is answered not-found exactly when the target item
\* has no producing recipe, and then carries no result; an ingredient
\* without a producing recipe met below never fails the query: it is
\* recorded in the demand totals, as a raw-tagged tree leaf, or in
\* table.rawMaterials, and is not expanded.
C10_NotFoundOnlyAtRoot ==
  (req.op \in CalculatorOps /\ req.rate # Zero) =>
    /\ res.status \in {200, 404}
    /\ res.status = 404 <=> ~HasProducer(req.itemName)
    /\ res.status = 404 => DOMAIN res = {"status"}
    /\ HasBody =>
         /\ "fullRequirements" \in DOMAIN res.body
         /\ \A i \in DOMAIN Events :
              ~HasProducer(Events[i].item) =>
                 /\ Events[i].item \in DemandNames
                 /\ HasKey(res.body.fullRequirements, Events[i].item)
         /\ \A i \in DOMAIN Events : HasProducer(RecipeByKey(Events[i].recipe).results[1].name)
    /\ HasTree => TreeRawOk(res.tree, RootRecipe)
    /\ HasTable =>
         /\ \A i \in DOMAIN res.table.recipes :
              \A k \in DOMAIN res.table.recipes[i].ingredients :
                 LET n == res.table.recipes[i].ingredients[k].name IN
                 ~HasProducer(n) <=> HasKey(res.table.rawMaterials, n)
         /\ \A i \in DOMAIN res.table.rawMaterials :
              ~HasKey(res.table.recipes, res.table.rawMaterials[i].name)

\* a successful query whose walk met, below the root recipe, an ingredient
\* that nothing produces
C10_Witness ==
  /\ HasTable /\ req.op = "calculate"
  /\ \E i \in DOMAIN Events :
        /\ ~HasProducer(Events[i].item)
        /\ Len(Events[i].seen) >= 2
  /\ res.table.rawMaterials # <<>>

----------------------------------------------------------------------------

RECURSIVE RoundedEventSum(_, _)
\* sum, over the first n events, of the amounts for itemName, each rounded
\* to two decimals before it is added
RoundedEventSum(itemName, n) ==
  IF n = 0 THEN Zero
  ELSE IF Events[n].item = itemName
       THEN RAdd(RoundedEventSum(itemName, n - 1), Round2(Events[n].amount))
       ELSE RoundedEventSum(itemName, n - 1)

\* the displayed list: one entry per demanded item, by descending rate
FullListShape ==
  LET fr == res.body.fullRequirements IN
  /\ { fr[i].name : i \in DOMAIN fr } = DemandNames
  /\ Len(fr) = Cardinality(DemandNames)
  /\ \A i, j \in DOMAIN fr : i < j => ~RLess(fr[i].rate, fr[j].rate)

----------------------------------------------------------------------------

IsItemGraph == Ok200 /\ req.op = "item-graph"

\* keys of the recipes listing itemName among their results / ingredients
ProducerKeys(itemName) ==
  { factorioData[i].key : i \in { j \in DOMAIN factorioData :
      \E k \in DOMAIN factorioData[j].results :
         factorioData[j].results[k].name = itemName } }

ConsumerKeys(itemName) ==
  { factorioData[i].key : i \in { j \in DOMAIN factorioData :
      \E k \in DOMAIN factorioData[j].ingredients :
         factorioData[j].ingredients[k].name = itemName } }

\* C12: for every seed and every depth >= 0 the item subgraph holds a node
\* for every recipe producing the seed and for every recipe consuming it,
\* with a 'produces' edge recipe -> seed and a 'consumedBy' edge seed -> recipe.
C12_SeedNeighbourhood ==
  IsItemGraph =>
    LET seed == ItemId(req.itemName) IN
    /\ seed \in NodeIds(res.graph)
    /\ \A key \in ProducerKeys(req.itemName) :
         /\ RecipeId(key) \in NodeIds(res.graph)
         /\ <<RecipeId(key), seed, "produces">> \in Triples(res.graph)
    /\ \A key \in ConsumerKeys(req.itemName) :
         /\ RecipeId(key) \in NodeIds(res.graph)
         /\ <<seed, RecipeId(key), "consumedBy">> \in Triples(res.graph)

\* a depth-0 subgraph of a seed with two producers, one of them listing the
\* seed as a secondary result, and a consumer
C12_Witness ==
  /\ IsItemGraph
  /\ req.depth = 0
  /\ Cardinality(ProducerKeys(req.itemName)) >= 2
  /\ \E i \in DOMAIN factorioData :
       /\ factorioData[i].key \in ProducerKeys(req.itemName)
       /\ factorioData[i].results[1].name # req.itemName
  /\ ConsumerKeys(req.itemName) # {}
  /\ \A key \in ProducerKeys(req.itemName) :
       <<RecipeId(key), ItemId(req.itemName), "produces">> \in Triples(res.graph)

----------------------------------------------------------------------------

RECURSIVE PathNoRepeat(_, _)
\* no recipe key of onPath occurs at node, nor any key twice below it
PathNoRepeat(node, onPath) ==
  IF "recipe" \notin DOMAIN node THEN TRUE
  ELSE /\ node.recipe \notin onPath
       /\ \A i \in DOMAIN node.children :
            PathNoRepeat(node.children[i], onPath \cup {node.recipe})

\* C13: the tree applies cycle truncation with a per-branch visited set:
\* along any root-to-leaf path no recipe key occurs twice, in addition to
\* the depth bound of 5.
C13_NoRepeatOnPath ==
  HasTree =>
    /\ PathNoRepeat(res.tree, {})
    /\ TreeHeight(res.tree) <= TreeDepth + 1

----------------------------------------------------------------------------

\* C14: every item that is the 'produces' item of an entry in table.recipes
\* has an entry in table.items whose producedBy is that recipe's key and
\* whose producedRate is that entry's outputRate, whether the item was first
\* met as the root's output or as an ingredient.
C14_ItemsProducer ==
  HasTable =>
    \A i \in DOMAIN res.table.recipes :
      LET r == res.table.recipes[i] IN
      \E j \in DOMAIN res.table.items :
        /\ res.table.items[j].name = r.produces
        /\ res.table.items[j].producedBy = r.name
        /\ res.table.items[j].producedRate = r.outputRate

----------------------------------------------------------------------------

\* the exact machine requirement of one occurrence of recipe at inbound rate r
MachineReq(recipe, r) ==
  LET tn == IF recipe.energy_required = 0 THEN 1 ELSE recipe.energy_required
      td == IF recipe.energy_required = 0 THEN 2 ELSE 1
      out == IF recipe.results[1].amount = 0 THEN 1 ELSE recipe.results[1].amount
  IN Rat(r[1] * tn * 4, r[2] * td * out * 5)

RECURSIVE OccRateSum(_, _)
\* sum of the inbound rates of the occurrences of key among the first n visits
OccRateSum(key, n) ==
  IF n = 0 THEN Zero
  ELSE IF ghost.occ[n].name = key
       THEN RAdd(OccRateSum(key, n - 1), ghost.occ[n].rate)
       ELSE OccRateSum(key, n - 1)

RECURSIVE OccMachines(_, _)
\* machine requirement accumulated over the occurrences of key among the
\* first n visits: each occurrence's requirement is added to the running
\* count, which is kept in hundredths, rounded up
OccMachines(key, n) ==
  IF n = 0 THEN Zero
  ELSE IF ghost.occ[n].name = key
       THEN LET total == RAdd(OccMachines(key, n - 1),
                              MachineReq(RecipeByKey(key), ghost.occ[n].rate))
            IN Rat((100 * total[1] + total[2] - 1) \div total[2], 100)
       ELSE OccMachines(key, n - 1)

\* C15: table.recipes has exactly one entry per distinct recipe key visited;
\* for a recipe reached several times the entry's outputRate is the sum of
\* the inbound rates of all its occurrences and its machine count is the
\* machine requirement accumulated over all its occurrences.
C15_RecipeEntries ==
  HasTable =>
    LET rs == res.table.recipes IN
    /\ { rs[i].name : i \in DOMAIN rs } = { ghost.occ[o].name : o \in DOMAIN ghost.occ }
    /\ \A i, j \in DOMAIN rs : rs[i].name = rs[j].name => i = j
    /\ \A i \in DOMAIN rs :
         Occurrences(rs[i].name) # {} =>
           /\ rs[i].outputRate = OccRateSum(rs[i].name, Len(ghost.occ))
           /\ rs[i].machines = OccMachines(rs[i].name, Len(ghost.occ))

\* a table with a recipe that was reached twice
C15_Witness ==
  /\ HasTable
  /\ \E i \in DOMAIN res.table.recipes :
       LET e == res.table.recipes[i] IN
       /\ Cardinality(Occurrences(e.name)) >= 2
       /\ e.outputRate = OccRateSum(e.name, Len(ghost.occ))
       /\ \E o \in Occurrences(e.name) : e.outputRate # ghost.occ[o].rate

----------------------------------------------------------------------------

ResultNames(recipe) == { recipe.results[k].name : k \in DOMAIN recipe.results }

IngredientNames(recipe) == { recipe.ingredients[k].name : k \in DOMAIN recipe.ingredients }

\* one item-to-item hop: across one recipe, from a product to an ingredient
\* or from an ingredient to a product
Hop(a, b) ==
  \E i \in DOMAIN factorioData :
    \/ a \in ResultNames(factorioData[i]) /\ b \in IngredientNames(factorioData[i])
    \/ a \in IngredientNames(factorioData[i]) /\ b \in ResultNames(factorioData[i])

RECURSIVE WithinHops(_, _)
\* the items at most n hops away from seed
WithinHops(seed, n) ==
  IF n = 0 THEN {seed}
  ELSE LET near == WithinHops(seed, n - 1)
       IN near \cup { b \in Items : \E a \in near : Hop(a, b) }

ItemNodeNames(graph) ==
  { graph.nodes[i].name : i \in { j \in DOMAIN graph.nodes : graph.nodes[j].type = "item" } }

RecipeNodeNames(graph) ==
  { graph.nodes[i].name : i \in { j \in DOMAIN graph.nodes : graph.nodes[j].type = "recipe" } }

\* C16 as stated: every item node of the subgraph is at most maxDepth hops
\* away from the seed; with maxDepth = 0 the seed is the only item node.
C16_WithinMaxDepth ==
  IsItemGraph =>
    ItemNodeNames(res.graph) \subseteq WithinHops(req.itemName, req.depth)

\* C16 (amended): only items at most maxDepth hops away from the seed are
\* expanded, so every recipe node produces or consumes such an item; the
\* ingredients and products of those recipes are added as nodes without being
\* expanded, so every item node is at most maxDepth + 1 hops away.
C16_WithinMaxDepthPlusOne ==
  IsItemGraph =>
    /\ ItemNodeNames(res.graph) \subseteq WithinHops(req.itemName, req.depth + 1)
    /\ \A key \in RecipeNodeNames(res.graph) :
         \E a \in WithinHops(req.itemName, req.depth) :
            a \in ResultNames(RecipeByKey(key)) \cup IngredientNames(RecipeByKey(key))

\* a subgraph with an item node exactly maxDepth + 1 hops away from the
\* seed, although a longer walk would reach more items
C16_Witness ==
  /\ IsItemGraph
  /\ ItemNodeNames(res.graph) \ WithinHops(req.itemName, req.depth) # {}
  /\ WithinHops(req.itemName, req.depth + 2) # WithinHops(req.itemName, req.depth + 1)

----------------------------------------------------------------------------

\* the item nodes (typed 'item' or 'raw') of a flow graph
FlowItemNodes(sankey) ==
  { sankey.nodes[i] : i \in { j \in DOMAIN sankey.nodes : sankey.nodes[j].type # "recipe" } }

Discoveries(itemName) == { k \in DOMAIN ghost.flow : ghost.flow[k].item = itemName }

\* the type the node of itemName had right after its first discovery
FirstLabel(itemName) ==
  ghost.flow[CHOOSE k \in Discoveries(itemName) :
               \A j \in Discoveries(itemName) : k <= j].type

\* the walk met itemName as an ingredient of a recipe above the depth limit
MetAboveLimit(itemName) ==
  \E k \in Discoveries(itemName) :
    ghost.flow[k].role = "ingredient" /\ ghost.flow[k].depth < SankeyDepth

----------------------------------------------------------------------------

\* the amount in which the root recipe yields the requested item (1 if absent)
RequestedAmount ==
  LET rs == RootRecipe.results
      k == CHOOSE j \in DOMAIN rs :
             rs[j].name = req.itemName /\ \A h \in 1..(j - 1) : rs[h].name # req.itemName
  IN IF rs[k].amount = 0 THEN 1 ELSE rs[k].amount

\* C18: the root item reported in the calculate result, in the tree, and as
\* 'produces' of the table's root entry is the requested item itself, and
\* the rates are computed against the amount in which the recipe yields the
\* requested item, also when the recipe lists it as a non-first result.
C18_RootIsRequested ==
  /\ HasBody =>
       /\ res.body.item = req.itemName
       /\ \A i \in DOMAIN res.body.ingredients :
            res.body.ingredients[i].amountPerSecond =
              Rat(RootRecipe.ingredients[i].amount * req.rate[1],
                  req.rate[2] * RequestedAmount)
  /\ HasTree => res.tree.item = req.itemName
  /\ HasTable =>
       \A i \in RootTableEntries(res.table) :
         res.table.recipes[i].produces = req.itemName

----------------------------------------------------------------------------

\* every rate propagated by the demand walk is exact to two decimals
RatesExact == \A k \in DOMAIN Events : Round2(Events[k].amount) = Events[k].amount

RawNames(table) == { table.rawMaterials[i].name : i \in DOMAIN table.rawMaterials }

\* the entries of the demand list for items no recipe produces
RawDemand ==
  { res.body.fullRequirements[i] :
      i \in { j \in DOMAIN res.body.fullRequirements :
                ~HasProducer(res.body.fullRequirements[j].name) } }

\* C19: for every dataset and target whose propagated rates are exact to two
\* decimals, the table's rawMaterials and the demand list agree on the raw
\* materials: the same set of producer-less items, each with the same rate.
C19_RawAgree ==
  (HasBody /\ HasTable /\ RatesExact) =>
    /\ RawNames(res.table) = { e.name : e \in RawDemand }
    /\ Len(res.table.rawMaterials) = Cardinality(RawNames(res.table))
    /\ \A i \in DOMAIN res.table.rawMaterials :
         \A e \in RawDemand :
           e.name = res.table.rawMaterials[i].name => e.rate = res.table.rawMaterials[i].rate

\* exact rates on a cyclic dataset, and a raw material whose rate is the sum
\* of several contributions
C19_Witness ==
  /\ HasBody /\ HasTable /\ RatesExact
  /\ \E i \in DOMAIN res.table.rawMaterials :
       LET m == res.table.rawMaterials[i] IN
       /\ Cardinality({ k \in DOMAIN Events : Events[k].item = m.name }) >= 2
       /\ \E e \in RawDemand : e.name = m.name /\ e.rate = m.rate
  /\ \E k \in DOMAIN Events : CycleClosing(Events[k])

----------------------------------------------------------------------------

\* C20: in the table every recipe entry's ingredients list has exactly one
\* element per ingredient entry of the recipe, however many times the recipe
\* is reached.
C20_IngredientsOnce ==
  HasTable =>
    \A i \in DOMAIN res.table.recipes :
      LET e == res.table.recipes[i] IN
      /\ Len(e.ingredients) = Len(RecipeByKey(e.name).ingredients)
      /\ \A k \in DOMAIN e.ingredients :
           k <= Len(RecipeByKey(e.name).ingredients) =>
             e.ingredients[k].name = RecipeByKey(e.name).ingredients[k].name

----------------------------------------------------------------------------

\* the seed is a result or an ingredient of some recipe of the dataset
SeedOccurs ==
  \E i \in DOMAIN factorioData :
    req.itemName \in ResultNames(factorioData[i]) \cup IngredientNames(factorioData[i])

\* C21: the item subgraph is a subgraph of the complete graph: for every
\* seed and depth every node id of the result is a node id of the complete
\* graph whenever the seed occurs in some recipe (the seed's own node is the
\* only possible exception otherwise), every edge (source, target,
\* relationship) of the result is an edge of the complete graph, and both
\* ends of every returned edge are ids of returned nodes.
C21_Subgraph ==
  IsItemGraph =>
    /\ SeedOccurs => NodeIds(res.graph) \subseteq NodeIds(GenerateCompleteGraph)
    /\ NodeIds(res.graph) \subseteq NodeIds(GenerateCompleteGraph) \cup {ItemId(req.itemName)}
    /\ Triples(res.graph) \subseteq Triples(GenerateCompleteGraph)
    /\ \A i \in DOMAIN res.graph.links :
         /\ res.graph.links[i].source \in NodeIds(res.graph)
         /\ res.graph.links[i].target \in NodeIds(res.graph)

\* a subgraph with both kinds of edge that leaves out part of the complete
\* graph
C21_Witness ==
  /\ IsItemGraph
  /\ SeedOccurs
  /\ \E t \in Triples(res.graph) : t[3] = "produces"
  /\ \E t \in Triples(res.graph) : t[3] = "consumedBy"
  /\ NodeIds(res.graph) # NodeIds(GenerateCompleteGraph)
  /\ Triples(res.graph) # Triples(GenerateCompleteGraph)

====
